---- MODULE Spec2Model ----
(***************************************************************************)
(* A model of receipt_renamer.process_receipts: the per-file pipeline      *)
(* extract -> parse -> name/classify -> probe -> materialize -> ledger     *)
(* row, with its error handler, over a small file system.                  *)
(*                                                                         *)
(* Python strings are sequences of one-character strings, so that          *)
(* formatting, sanitization and path operations are computed character by  *)
(* character as the code computes them.  A value that comes out of         *)
(* json.loads is a record [t, v]: t is "str", "num" or "null", v is the    *)
(* text of str(value).                                                     *)
(***************************************************************************)
EXTENDS Integers, Sequences, FiniteSets, TLC

----------------------------------------------------------------------------
(* Bounds of the model. *)

\* longest input file list
MaxFiles == 2
\* I/O failures the environment injects in one run (OCR, copy, save)
MaxFaults == 1

----------------------------------------------------------------------------
(* String literals of the source. *)

UNKNOWN == <<"U","N","K","N","O","W","N">>

UnknownOrg == <<"U","n","k","n","o","w","n","O","r","g">>

UnknownAmount == <<"U","n","k","n","o","w","n","A","m","o","u","n","t">>

UnknownDate == <<"U","n","k","n","o","w","n","D","a","t","e">>

FAILED == <<"F","A","I","L","E","D">>

SUCCESS == <<"S","U","C","C","E","S","S">>

FAILED_MISSING == <<"F","A","I","L","E","D"," ","-"," ","M","i","s","s","i","n","g"," ","D","a","t","a">>

ERROR_PFX == <<"E","R","R","O","R"," ","-"," ">>

CRITICAL_PFX == <<"C","R","I","T","I","C","A","L"," ","E","R","R","O","R"," ","-"," ">>

COPYFAIL_PFX == <<"F","a","i","l","e","d"," ","t","o"," ","c","o","p","y"," ","t","o"," ","e","r","r","o","r"," ","f","o","l","d","e","r",":"," ">>

FAILED_NAME_PFX == <<"F","A","I","L","E","D","_">>

ERROR_NAME_PFX == <<"E","R","R","O","R","_">>

PDF_EXT == <<".","p","d","f">>

FAILED_DIR == <<"f","a","i","l","e","d","_","r","e","c","e","i","p","t","s">>

ERROR_DIR == <<"e","r","r","o","r","_","r","e","c","e","i","p","t","s">>

MSG_NOT_FOUND == <<"F","i","l","e"," ","n","o","t"," ","f","o","u","n","d",":"," ">>

MSG_CANNOT_READ == <<"C","a","n","n","o","t"," ","r","e","a","d"," ","f","i","l","e",":"," ">>

MSG_UNSUPPORTED == <<"U","n","s","u","p","p","o","r","t","e","d"," ","f","i","l","e"," ","t","y","p","e",":"," ">>

MSG_UNSUPPORTED_TAIL == <<"."," ","O","n","l","y"," ","P","D","F"," ","a","n","d"," ","c","o","m","m","o","n"," ","i","m","a","g","e"," ","f","o","r","m","a","t","s"," ","a","r","e"," ","s","u","p","p","o","r","t","e","d",".">>

MSG_NO_TEXT == <<"N","o"," ","d","i","s","c","e","r","n","i","b","l","e"," ","t","e","x","t"," ","e","x","t","r","a","c","t","e","d"," ","f","r","o","m"," ","t","h","e"," ","f","i","l","e",".">>

MSG_TYPEERROR == <<"e","x","p","e","c","t","e","d"," ","s","t","r","i","n","g"," ","o","r"," ","b","y","t","e","s","-","l","i","k","e"," ","o","b","j","e","c","t">>

MSG_OCR == <<"o","c","r"," ","f","a","i","l","e","d">>

MSG_DISK == <<"d","i","s","k"," ","f","u","l","l">>

MSG_NOT_IMAGE == <<"c","a","n","n","o","t"," ","i","d","e","n","t","i","f","y"," ","i","m","a","g","e"," ","f","i","l","e">>

MSG_PERM == <<"P","e","r","m","i","s","s","i","o","n"," ","d","e","n","i","e","d">>

NONE_STR == <<"N","o","n","e">>

OUT_DIR == <<"o","u","t">>

A_PDF == <<"i","n","/","a",".","p","d","f">>

B_PNG == <<"i","n","/","b",".","P","N","G">>

C_TXT == <<"i","n","/","c",".","t","x","t">>

M_PDF == <<"i","n","/","m",".","p","d","f">>

U_PDF == <<"x","/","a",".","p","d","f">>

\* an organization name as the API may answer it: "Red/Cross"
ORG_RAW == <<"R","e","d","/","C","r","o","s","s">>

AMT_125 == <<"1","2","5",".","5","0">>

AMT_1234 == <<"1",",","2","3","4",".","5","6">>

AMT_50 == <<"5","0">>

FLOAT_125 == <<"1","2","5",".","5">>

DATE_0322 == <<"0","3",".","2","2",".","2","0","2","3">>

TEXT_BLANK == <<" ","\n">>

TEXT_OK == <<"T","o","t","a","l"," ","1","2","5">>

STAMP == <<"2","0","2","4","0","1","0","1","1","2","0","0","0","0">>

OK_BASE == <<"R","e","d"," ","C","r","o","s","s","_","$","1","2","5","_","0","3",".","2","2",".","2","0","2","3">>

Header ==
  << <<"O","r","i","g","i","n","a","l"," ","F","i","l","e","n","a","m","e">>,
     <<"R","e","c","i","p","i","e","n","t","O","r","g","N","a","m","e">>,
     <<"A","m","o","u","n","t">>,
     <<"D","a","t","e">>,
     <<"N","e","w"," ","F","i","l","e","n","a","m","e">>,
     <<"S","t","a","t","u","s">>,
     <<"E","r","r","o","r"," ","M","e","s","s","a","g","e">> >>

----------------------------------------------------------------------------
(* Character classes of the regular expressions and of str.strip/lower. *)

Digits == {"0","1","2","3","4","5","6","7","8","9"}

DigitSeq == <<"0","1","2","3","4","5","6","7","8","9">>

UpperSeq == <<"A","B","C","D","E","F","G","H","I","J","K","L","M","N","O","P","Q","R","S","T","U","V","W","X","Y","Z">>

LowerSeq == <<"a","b","c","d","e","f","g","h","i","j","k","l","m","n","o","p","q","r","s","t","u","v","w","x","y","z">>

Upper == {UpperSeq[k] : k \in 1..Len(UpperSeq)}

Lower == {LowerSeq[k] : k \in 1..Len(LowerSeq)}

\* [\\/:*?"<>|]
Forbidden == {"\\", "/", ":", "*", "?", "\"", "<", ">", "|"}

\* [\x00-\x1F], as far as a TLA+ string can name its members
Control == {"\t", "\n", "\r", "\f"}

\* \s and the characters str.strip() removes
Whitespace == {" ", "\t", "\n", "\r", "\f"}

----------------------------------------------------------------------------
(* Python string operations. *)

Min(S) == CHOOSE x \in S : \A y \in S : x <= y

Max(S) == CHOOSE x \in S : \A y \in S : x >= y

\* s.strip()
Strip(s) ==
  LET keep == {k \in 1..Len(s) : s[k] \notin Whitespace}
  IN  IF keep = {} THEN <<>> ELSE SubSeq(s, Min(keep), Max(keep))

\* c.lower() for one character
LowerChar(c) ==
  IF c \in Upper THEN LowerSeq[CHOOSE k \in 1..Len(UpperSeq) : UpperSeq[k] = c] ELSE c

\* s.lower()
ToLower(s) == [k \in 1..Len(s) |-> LowerChar(s[k])]

\* s.endswith(suffix)
EndsWith(s, suffix) ==
  /\ Len(s) >= Len(suffix)
  /\ SubSeq(s, Len(s) - Len(suffix) + 1, Len(s)) = suffix

\* s.startswith(prefix)
StartsWith(s, prefix) ==
  /\ Len(s) >= Len(prefix)
  /\ SubSeq(s, 1, Len(prefix)) = prefix

\* re.sub(r"[set]", "", s)
RemoveChars(s, set) == SelectSeq(s, LAMBDA c : c \notin set)

\* "".join(parts[:k])
RECURSIVE Concat(_, _)
Concat(parts, k) == IF k = 0 THEN <<>> ELSE Concat(parts, k - 1) \o parts[k]

\* re.sub(r"(?<=[a-z])(?=[A-Z])", " ", s): a space after every lower-case letter
\* that an upper-case letter follows
DeCamel(s) ==
  Concat([k \in 1..Len(s) |->
            IF k < Len(s) /\ s[k] \in Lower /\ s[k + 1] \in Upper
            THEN <<s[k], " ">>
            ELSE <<s[k]>>],
         Len(s))

\* re.sub(r"\s+", " ", s): every run of whitespace becomes one space
CollapseSpaces(s) ==
  Concat([k \in 1..Len(s) |->
            IF s[k] \in Whitespace
            THEN IF k < Len(s) /\ s[k + 1] \in Whitespace THEN <<>> ELSE <<" ">>
            ELSE <<s[k]>>],
         Len(s))

\* mutant: s.rsplit('.', 1)[0], the cut at the last '.'
BeforeFirstDot_Last(s) ==
  LET dots == {k \in 1..Len(s) : s[k] = "."}
  IN  IF dots = {} THEN s ELSE SubSeq(s, 1, Max(dots) - 1)

\* s.split('.')[0] when '.' is in s
BeforeFirstDot(s) ==
  LET dots == {k \in 1..Len(s) : s[k] = "."}
  IN  IF dots = {} THEN s ELSE SubSeq(s, 1, Min(dots) - 1)

\* str(n) for a natural number
RECURSIVE IntToStr(_)
IntToStr(n) ==
  IF n < 10 THEN <<DigitSeq[n + 1]>>
  ELSE IntToStr(n \div 10) \o <<DigitSeq[(n % 10) + 1]>>

\* os.path.basename(path)
Basename(path) ==
  LET seps == {k \in 1..Len(path) : path[k] = "/"}
  IN  IF seps = {} THEN path ELSE SubSeq(path, Max(seps) + 1, Len(path))

\* os.path.splitext(name)[0]: the extension starts at the last dot, unless only
\* dots precede it
Stem(name) ==
  LET dots == {k \in 1..Len(name) : name[k] = "."}
      last == Max(dots)
  IN  IF dots = {} \/ \A k \in 1..(last - 1) : name[k] = "."
      THEN name
      ELSE SubSeq(name, 1, last - 1)

\* os.path.join(folder, name) for a relative name
Join(folder, name) == folder \o <<"/">> \o name

\* file_path.lower().endswith(".pdf")
IsPdfPath(path) == EndsWith(ToLower(path), PDF_EXT)

ImageExts ==
  { <<".","p","n","g">>, <<".","j","p","g">>, <<".","j","p","e","g">>,
    <<".","g","i","f">>, <<".","b","m","p">>, <<".","t","i","f","f">> }

\* file_path.lower().endswith(('.png', '.jpg', '.jpeg', '.gif', '.bmp', '.tiff'))
IsImagePath(path) == \E ext \in ImageExts : EndsWith(ToLower(path), ext)

\* datetime.now().strftime('%Y%m%d%H%M%S'): 14 digits.  The run falls within one
\* second, so every call returns the same digits and two files of the same stem
\* get the same FAILED_ or ERROR_ base name (files of different stems do not).
Strftime == STAMP

----------------------------------------------------------------------------
(* Values that json.loads returns for the fields of the model's answer. *)

Str(s) == [t |-> "str", v |-> s]

Num(s) == [t |-> "num", v |-> s]

Null == [t |-> "null", v |-> NONE_STR]

\* x == "UNKNOWN" in Python: only a str can equal a str
PyEq(x, s) == x.t = "str" /\ x.v = s

\* str(x), as an f-string formats it
PyStr(x) == x.v

\* the cell csv.writer writes for x: None as the empty string, anything else as str(x)
CsvCell(x) == IF x.t = "null" THEN <<>> ELSE x.v

AllUnknown ==
  [RecipientOrgName |-> Str(UNKNOWN), Amount |-> Str(UNKNOWN), Date |-> Str(UNKNOWN)]

\* parsed_json.get(key, "UNKNOWN")
DictGet(obj, key) == IF key \in DOMAIN obj THEN obj[key] ELSE Str(UNKNOWN)

\* The record parse_receipt_with_gpt returns for an answer of the API.  kind is
\* "api_error" (openai.APIError), "bad_json" (json.JSONDecodeError) or "json";
\* a JSON value that is no object has no .get and ends in the last handler.
ParseReceiptFromDict(resp) ==
  [RecipientOrgName |-> DictGet(resp.obj, "RecipientOrgName"),
   Amount           |-> DictGet(resp.obj, "Amount"),
   Date             |-> DictGet(resp.obj, "Date")]

parse_receipt_with_gpt(resp) ==
  IF resp.kind = "json" /\ resp.isdict
  THEN ParseReceiptFromDict(resp)
  ELSE AllUnknown

\* what parse_receipt_with_gpt logs besides the call itself
ParseLog(resp) ==
  IF resp.kind = "api_error" THEN <<[msg |-> "OpenAI API error", tag |-> "none"]>>
  ELSE IF resp.kind = "bad_json" THEN <<[msg |-> "GPT response was not valid JSON", tag |-> "none"]>>
  ELSE IF ~resp.isdict THEN <<[msg |-> "unexpected error during GPT parsing", tag |-> "none"]>>
  ELSE <<>>

----------------------------------------------------------------------------
(* Filename parts, lines 187-236. *)

\* len(recipient_filename_part) > 50
MaxOrgLen == 50

\* re.sub raises TypeError on a value that is no str
OrgRaises(x) == ~PyEq(x, UNKNOWN) /\ x.t # "str"

AmountRaises(x) == ~PyEq(x, UNKNOWN) /\ x.t # "str"

TruncateOrg(s) == IF Len(s) > MaxOrgLen THEN Strip(SubSeq(s, 1, MaxOrgLen)) ELSE s

\* lines 195-205, one assignment to recipient_filename_part after the other; each
\* intermediate value is bound once
RecipientFilenamePart(x) ==
  IF PyEq(x, UNKNOWN) THEN UnknownOrg
  ELSE CHOOSE part \in
         { TruncateOrg(s6) :
             s6 \in { CollapseSpaces(s5) :
             s5 \in { Strip(s4) :
             s4 \in { DeCamel(s3) :
             s3 \in { Strip(s2) :
             s2 \in { RemoveChars(s1, Control) :
             s1 \in { RemoveChars(x.v, Forbidden) } } } } } } } : TRUE

AmountFilenamePart(x) ==
  IF PyEq(x, UNKNOWN) THEN UnknownAmount
  ELSE LET kept == SelectSeq(x.v, LAMBDA c : c \in Digits \/ c = ".")
           int  == BeforeFirstDot(kept)
       IN  IF int = <<>> THEN <<"0">> ELSE int

DateFilenamePart(x) == IF PyEq(x, UNKNOWN) THEN UnknownDate ELSE PyStr(x)

\* mutant: only the amount is looked at
HasUnknown_AmountOnly(r, a, d) == PyEq(a, UNKNOWN)

\* "UNKNOWN" in [recipient_for_log, amount_for_log, date_for_log]
HasUnknown(r, a, d) == PyEq(r, UNKNOWN) \/ PyEq(a, UNKNOWN) \/ PyEq(d, UNKNOWN)

\* mutant: the "$" is left out
SuccessBaseName_NoDollar(r, a, d) ==
  RecipientFilenamePart(r) \o <<"_">> \o AmountFilenamePart(a) \o <<"_">> \o DateFilenamePart(d)

\* f"{recipient_filename_part}_${amount_filename_part}_{date_filename_part}"
SuccessBaseName(r, a, d) ==
  RecipientFilenamePart(r) \o <<"_", "$">> \o AmountFilenamePart(a) \o <<"_">> \o DateFilenamePart(d)

\* f"FAILED_{datetime.now().strftime('%Y%m%d%H%M%S')}_{os.path.splitext(filename)[0]}"
FailedBaseName(name) == FAILED_NAME_PFX \o Strftime \o <<"_">> \o Stem(name)

\* f"ERROR_{datetime.now().strftime('%Y%m%d%H%M%S')}_{os.path.splitext(filename)[0]}"
ErrorBaseName(name) == ERROR_NAME_PFX \o Strftime \o <<"_">> \o Stem(name)

\* f"{base}.pdf"
FirstAttempt(base) == base \o PDF_EXT

\* f"{base}_{counter}.pdf"
NumberedAttempt(base, n) == base \o <<"_">> \o IntToStr(n) \o PDF_EXT

ClassifyStatus(r, a, d) == IF HasUnknown(r, a, d) THEN FAILED_MISSING ELSE SUCCESS

----------------------------------------------------------------------------
(* The environment: the files on disk, the OCR texts and the API answers. *)

\* config.LOG_FOLDER
LOG_FOLDER == <<"l","o","g","s">>

InputPaths == {A_PDF, B_PNG, C_TXT, M_PDF, U_PDF}

\* a file: what its bytes are (kind), which bytes (data), and os.access(R_OK)
File(kind, data, readable) == [kind |-> kind, data |-> data, readable |-> readable]

InputFiles ==
  (A_PDF :> File("pdf", <<"A">>, TRUE)) @@
  (B_PNG :> File("img", <<"B">>, TRUE)) @@
  (C_TXT :> File("other", <<"C">>, TRUE)) @@
  (U_PDF :> File("pdf", <<"U">>, FALSE))

\* the path of what an earlier run has left in the output root
EarlierPath == Join(OUT_DIR, FirstAttempt(OK_BASE))

EarlierOutput == EarlierPath :> File("pdf", <<"old">>, TRUE)

Texts == {TEXT_BLANK, TEXT_OK}

Response(kind, isdict, obj) == [kind |-> kind, isdict |-> isdict, obj |-> obj]

Responses ==
  { Response("api_error", FALSE, <<>>),
    Response("bad_json", FALSE, <<>>),
    Response("json", FALSE, <<>>),
    Response("json", TRUE, [RecipientOrgName |-> Str(ORG_RAW), Amount |-> Str(AMT_125), Date |-> Str(DATE_0322)]),
    Response("json", TRUE, [RecipientOrgName |-> Str(UNKNOWN), Amount |-> Str(AMT_50)]),
    Response("json", TRUE, [RecipientOrgName |-> Str(<<>>), Amount |-> Num(FLOAT_125), Date |-> Null]) }

\* sequences over S of length at most n
RECURSIVE SeqsUpTo(_, _)
SeqsUpTo(S, n) ==
  IF n = 0 THEN {<<>>}
  ELSE LET shorter == SeqsUpTo(S, n - 1)
       IN  shorter \cup {Append(s, x) : s \in shorter, x \in S}

----------------------------------------------------------------------------
(* State. *)

VARIABLES
  files_to_process,       \* argument: the list of paths
  user_output_folder,     \* argument: the output root, <<>> when not supplied
  fs,                     \* the files on disk: path -> File
  dirs,                   \* the folders os.makedirs has been asked for, or found
  ledger_state,           \* "absent", "stale" (a previous run's), "open", "closed"
  ledger_rows,            \* the rows of the CSV file at log_file_path
  log_lines,              \* the calls of log_callback: [msg, tag]
  pc,                     \* position in process_receipts
  idx,                    \* position of the for loop in files_to_process
  filename, recipient_for_log, amount_for_log, date_for_log,
  final_output_filename, status, error_message,
  text, parsed,
  base_new_filename, target_output_folder, counter, final_output_path,
  exc,                    \* e of line 264 for the current file: <<>> or <<type, message>>
  copy_error,             \* copy_error of line 292 for the current file: <<>> or <<message>>
  error_new_filename_base, error_counter, error_final_output_path,
  faults                  \* I/O failures injected so far

args == <<files_to_process, user_output_folder>>

disk == <<fs, dirs, ledger_state, ledger_rows>>

row_locals ==
  <<filename, recipient_for_log, amount_for_log, date_for_log,
    final_output_filename, status, error_message>>

name_locals == <<base_new_filename, target_output_folder, counter, final_output_path>>

error_locals ==
  <<error_new_filename_base, error_counter, error_final_output_path, copy_error>>

vars ==
  <<files_to_process, user_output_folder, fs, dirs, ledger_state, ledger_rows,
    log_lines, pc, idx, filename, recipient_for_log, amount_for_log, date_for_log,
    final_output_filename, status, error_message, text, parsed,
    base_new_filename, target_output_folder, counter, final_output_path, exc, copy_error,
    error_new_filename_base, error_counter, error_final_output_path, faults>>

\* mutant: the list is walked from its end
file_path_Reversed == files_to_process[Len(files_to_process) + 1 - idx]

\* for file_path in files_to_process
file_path == files_to_process[idx]

\* log(message, tag): one call of log_callback
Line(msg, tag) == [msg |-> msg, tag |-> tag]

Log(lines) == log_lines' = log_lines \o lines

FailedFolder == Join(user_output_folder, FAILED_DIR)

ErrorFolder == Join(user_output_folder, ERROR_DIR)

\* the ledger an earlier run has left at log_file_path
StaleRows ==
  <<Header, <<Basename(A_PDF), ORG_RAW, AMT_125, DATE_0322, FirstAttempt(OK_BASE), SUCCESS, <<>> >> >>

\* The caller's list is drawn from the input paths and, after an earlier run,
\* from the output that run has left: an input may lie in the output root.
Init ==
  /\ user_output_folder \in {<<>>, OUT_DIR}
  /\ \E earlier \in BOOLEAN :
       /\ files_to_process \in
            SeqsUpTo(IF earlier THEN InputPaths \cup {EarlierPath} ELSE InputPaths, MaxFiles)
       /\ fs = IF earlier THEN InputFiles @@ EarlierOutput ELSE InputFiles
       /\ dirs = IF earlier THEN {LOG_FOLDER, OUT_DIR} ELSE {}
       /\ ledger_state = IF earlier THEN "stale" ELSE "absent"
       /\ ledger_rows = IF earlier THEN StaleRows ELSE <<>>
  /\ log_lines = <<>>
  /\ pc = "start"
  /\ idx = 0
  /\ filename = <<>>
  /\ recipient_for_log = Str(UNKNOWN)
  /\ amount_for_log = Str(UNKNOWN)
  /\ date_for_log = Str(UNKNOWN)
  /\ final_output_filename = <<>>
  /\ status = <<>>
  /\ error_message = <<>>
  /\ text = <<>>
  /\ parsed = <<>>
  /\ base_new_filename = <<>>
  /\ target_output_folder = <<>>
  /\ counter = 0
  /\ final_output_path = <<>>
  /\ exc = <<>>
  /\ copy_error = <<>>
  /\ error_new_filename_base = <<>>
  /\ error_counter = 0
  /\ error_final_output_path = <<>>
  /\ faults = 0

----------------------------------------------------------------------------
(* process_receipts, lines 136-158: the guards and the set-up. *)

\* if not files_to_process: log(..., tag="warning"); return
StartNoFiles ==
  /\ pc = "start"
  /\ files_to_process = <<>>
  /\ Log(<<Line("No files selected for processing", "warning")>>)
  /\ pc' = "done"
  /\ UNCHANGED <<args, faults, disk, idx, row_locals, text, parsed, name_locals, exc, error_locals>>

\* mutant: the folders are created before the output folder is checked
StartNoFolder_AfterMakedirs ==
  /\ pc = "start"
  /\ files_to_process # <<>>
  /\ user_output_folder = <<>>
  /\ dirs' = dirs \cup {LOG_FOLDER}
  /\ Log(<<Line("No output folder selected", "warning")>>)
  /\ pc' = "done"
  /\ UNCHANGED <<args, faults, fs, ledger_state, ledger_rows, idx, row_locals, text, parsed,
                 name_locals, exc, error_locals>>

\* if not user_output_folder: log(..., tag="warning"); return
StartNoFolder ==
  /\ pc = "start"
  /\ files_to_process # <<>>
  /\ user_output_folder = <<>>
  /\ Log(<<Line("No output folder selected", "warning")>>)
  /\ pc' = "done"
  /\ UNCHANGED <<args, faults, disk, idx, row_locals, text, parsed, name_locals, exc, error_locals>>

\* os.makedirs(..., exist_ok=True) four times, two log lines, open(log_file_path, 'w')
\* and the header row
StartRun ==
  /\ pc = "start"
  /\ files_to_process # <<>>
  /\ user_output_folder # <<>>
  /\ dirs' = dirs \cup {LOG_FOLDER, user_output_folder, FailedFolder, ErrorFolder}
  /\ Log(<<Line("Found files selected for processing", "none"),
           Line("Outputting processed files to", "none")>>)
  /\ ledger_state' = "open"
  /\ ledger_rows' = <<Header>>
  /\ idx' = 1
  /\ pc' = "loop"
  /\ UNCHANGED <<args, faults, fs, row_locals, text, parsed, name_locals, exc, error_locals>>

----------------------------------------------------------------------------
(* The for loop, lines 160-170 and 309-310. *)

\* the next file_path: filename, the start log line and the defaults of the row.
\* text, parsed, e and copy_error of the file before are never read again: they
\* start unassigned for every file.
LoopNext ==
  /\ pc = "loop"
  /\ idx <= Len(files_to_process)
  /\ filename' = Basename(file_path)
  /\ Log(<<Line("Processing", "none")>>)
  /\ recipient_for_log' = Str(UNKNOWN)
  /\ amount_for_log' = Str(UNKNOWN)
  /\ date_for_log' = Str(UNKNOWN)
  /\ final_output_filename' = <<>>
  /\ status' = FAILED
  /\ error_message' = <<>>
  /\ text' = <<>>
  /\ parsed' = <<>>
  /\ exc' = <<>>
  /\ copy_error' = <<>>
  /\ pc' = "extract"
  /\ UNCHANGED <<args, faults, disk, idx, name_locals, error_new_filename_base,
                 error_counter, error_final_output_path>>

\* the list is exhausted: the with block closes the ledger, two closing log lines
LoopEnd ==
  /\ pc = "loop"
  /\ idx > Len(files_to_process)
  /\ ledger_state' = "closed"
  /\ Log(<<Line("Receipt processing complete", "none"), Line("Check the log", "none")>>)
  /\ pc' = "done"
  /\ UNCHANGED <<args, faults, fs, dirs, ledger_rows, idx, row_locals, text, parsed, name_locals,
                 exc, error_locals>>

----------------------------------------------------------------------------
(* extract_text, lines 32-55, and the blank-text check, lines 176-178. *)

\* raise inside the try block of the current file: control goes to line 264
Raise(type, msg) ==
  /\ exc' = <<type, msg>>
  /\ pc' = "except"

Supported(path) == IsPdfPath(path) \/ IsImagePath(path)

\* the bytes are what the extension promises, so pdf2image or PIL can open them
Decodable(path) ==
  \/ IsPdfPath(path) /\ fs[path].kind = "pdf"
  \/ IsImagePath(path) /\ ~IsPdfPath(path) /\ fs[path].kind = "img"

ExtractLog(path) ==
  IF IsPdfPath(path) THEN <<Line("Extracting text from PDF", "none")>>
  ELSE <<Line("Extracting text from image", "none")>>

\* if not os.path.exists(file_path): raise FileNotFoundError
ExtractNotFound ==
  /\ pc = "extract"
  /\ file_path \notin DOMAIN fs
  /\ Raise("FileNotFoundError", MSG_NOT_FOUND \o file_path)
  /\ UNCHANGED <<args, faults, disk, log_lines, idx, row_locals, text, parsed, name_locals, error_locals>>

\* if not os.access(file_path, os.R_OK): raise PermissionError
ExtractNoAccess ==
  /\ pc = "extract"
  /\ file_path \in DOMAIN fs
  /\ ~fs[file_path].readable
  /\ Raise("PermissionError", MSG_CANNOT_READ \o file_path)
  /\ UNCHANGED <<args, faults, disk, log_lines, idx, row_locals, text, parsed, name_locals, error_locals>>

\* else: raise ValueError("Unsupported file type: ...")
ExtractUnsupported ==
  /\ pc = "extract"
  /\ file_path \in DOMAIN fs
  /\ fs[file_path].readable
  /\ ~Supported(file_path)
  /\ Raise("ValueError", MSG_UNSUPPORTED \o Basename(file_path) \o MSG_UNSUPPORTED_TAIL)
  /\ UNCHANGED <<args, faults, disk, log_lines, idx, row_locals, text, parsed, name_locals, error_locals>>

\* pdf2image, PIL or pytesseract raises
ExtractOcrFails ==
  /\ pc = "extract"
  /\ file_path \in DOMAIN fs
  /\ fs[file_path].readable
  /\ Supported(file_path)
  /\ Decodable(file_path) => faults < MaxFaults
  /\ faults' = IF Decodable(file_path) THEN faults + 1 ELSE faults
  /\ Log(ExtractLog(file_path))
  /\ Raise("Exception", MSG_OCR)
  /\ UNCHANGED <<args, disk, idx, row_locals, text, parsed, name_locals, error_locals>>

\* the OCR returns a text; a blank one raises ValueError at line 178
ExtractText ==
  /\ pc = "extract"
  /\ file_path \in DOMAIN fs
  /\ fs[file_path].readable
  /\ Supported(file_path)
  /\ Decodable(file_path)
  /\ Log(ExtractLog(file_path))
  /\ \E t \in Texts :
       /\ text' = t
       /\ IF Strip(t) = <<>>
          THEN Raise("ValueError", MSG_NO_TEXT)
          ELSE pc' = "parse" /\ exc' = exc
  /\ UNCHANGED <<args, faults, disk, idx, row_locals, parsed, name_locals, error_locals>>

----------------------------------------------------------------------------
(* parse_receipt_with_gpt and lines 181-185. *)

Parse ==
  /\ pc = "parse"
  /\ \E resp \in Responses :
       /\ Log(<<Line("Calling OpenAI GPT for parsing", "none")>> \o ParseLog(resp))
       /\ parsed' = <<parse_receipt_with_gpt(resp)>>
  /\ recipient_for_log' = parsed'[1].RecipientOrgName
  /\ amount_for_log' = parsed'[1].Amount
  /\ date_for_log' = parsed'[1].Date
  /\ pc' = "name"
  /\ UNCHANGED <<args, faults, disk, idx, filename, final_output_filename, status, error_message,
                 text, name_locals, exc, error_locals>>

----------------------------------------------------------------------------
(* Filename generation and classification, lines 187-247. *)

\* re.sub on a field that is no str raises TypeError (line 195 or 214)
NameRaises ==
  /\ pc = "name"
  /\ OrgRaises(recipient_for_log) \/ AmountRaises(amount_for_log)
  /\ Raise("TypeError", MSG_TYPEERROR)
  /\ UNCHANGED <<args, faults, disk, log_lines, idx, row_locals, text, parsed, name_locals, error_locals>>

\* lines 226-241: status, base name, target folder, the first name to probe
Classify ==
  /\ pc = "name"
  /\ ~OrgRaises(recipient_for_log)
  /\ ~AmountRaises(amount_for_log)
  /\ status' = ClassifyStatus(recipient_for_log, amount_for_log, date_for_log)
  /\ base_new_filename' =
       IF HasUnknown(recipient_for_log, amount_for_log, date_for_log)
       THEN FailedBaseName(filename)
       ELSE SuccessBaseName(recipient_for_log, amount_for_log, date_for_log)
  /\ target_output_folder' =
       IF HasUnknown(recipient_for_log, amount_for_log, date_for_log)
       THEN FailedFolder
       ELSE user_output_folder
  /\ IF HasUnknown(recipient_for_log, amount_for_log, date_for_log)
     THEN Log(<<Line("Status: FAILED - Missing Data. Moving to failed_receipts", "none")>>)
     ELSE Log(<<Line("Status: SUCCESS. Moving to the output folder", "none")>>)
  /\ counter' = 1
  /\ final_output_path' = Join(target_output_folder', FirstAttempt(base_new_filename'))
  /\ pc' = "probe"
  /\ UNCHANGED <<args, faults, disk, idx, filename, recipient_for_log, amount_for_log, date_for_log,
                 final_output_filename, error_message, text, parsed, exc, error_locals>>

\* mutant: the counter is incremented before the name is formatted
ProbeStep_IncrementFirst ==
  /\ pc = "probe"
  /\ final_output_path \in DOMAIN fs
  /\ final_output_path' =
       Join(target_output_folder, NumberedAttempt(base_new_filename, counter + 1))
  /\ counter' = counter + 1
  /\ UNCHANGED <<args, faults, disk, log_lines, pc, idx, row_locals, text, parsed,
                 base_new_filename, target_output_folder, exc, error_locals>>

\* while os.path.exists(final_output_path): one turn of the loop, lines 242-245
ProbeStep ==
  /\ pc = "probe"
  /\ final_output_path \in DOMAIN fs
  /\ final_output_path' = Join(target_output_folder, NumberedAttempt(base_new_filename, counter))
  /\ counter' = counter + 1
  /\ UNCHANGED <<args, faults, disk, log_lines, pc, idx, row_locals, text, parsed,
                 base_new_filename, target_output_folder, exc, error_locals>>

\* mutant: the first name is taken whether or not a file has it
ProbeDone_NoProbe ==
  /\ pc = "probe"
  /\ counter = 1
  /\ final_output_filename' = Basename(final_output_path)
  /\ pc' = "materialize"
  /\ UNCHANGED <<args, faults, disk, log_lines, idx, filename, recipient_for_log, amount_for_log,
                 date_for_log, status, error_message, text, parsed, name_locals, exc,
                 error_locals>>

\* the loop ends on a free path; line 247
ProbeDone ==
  /\ pc = "probe"
  /\ final_output_path \notin DOMAIN fs
  /\ final_output_filename' = Basename(final_output_path)
  /\ pc' = "materialize"
  /\ UNCHANGED <<args, faults, disk, log_lines, idx, filename, recipient_for_log, amount_for_log,
                 date_for_log, status, error_message, text, parsed, name_locals, exc,
                 error_locals>>

----------------------------------------------------------------------------
(* Materialization, lines 251-262. *)

\* the PDF that img.save(path, "PDF") writes for an image
ConvertedPdf(f) == File("pdf", <<"pdf-of">> \o f.data, TRUE)

\* what an interrupted write leaves at the destination
PartialFile == File("other", <<"partial">>, TRUE)

\* mutant: shutil.move(src, dst)
CopyFile_Move(src, dst) ==
  fs' = [p \in (DOMAIN fs \cup {dst}) \ {src} |-> IF p = dst THEN fs[src] ELSE fs[p]]

\* shutil.copy2(src, dst): the bytes and the metadata of src
CopyFile(src, dst) == fs' = (dst :> fs[src]) @@ fs

\* Image.open(src); img.save(dst, "PDF")
ConvertFile(src, dst) == fs' = (dst :> ConvertedPdf(fs[src])) @@ fs

\* a failed copy or save leaves nothing or a partial file at dst
FailedWrite(dst) == fs' = fs \/ fs' = (dst :> PartialFile) @@ fs

MaterializeCopy ==
  /\ pc = "materialize"
  /\ IsPdfPath(file_path)
  /\ CopyFile(file_path, final_output_path)
  /\ Log(<<Line("Copied to the new name", "none")>>)
  /\ pc' = "row"
  /\ UNCHANGED <<args, faults, dirs, ledger_state, ledger_rows, idx, row_locals, text, parsed,
                 name_locals, exc, error_locals>>

MaterializeConvert ==
  /\ pc = "materialize"
  /\ ~IsPdfPath(file_path)
  /\ ConvertFile(file_path, final_output_path)
  /\ Log(<<Line("Converted to PDF and saved", "none")>>)
  /\ pc' = "row"
  /\ UNCHANGED <<args, faults, dirs, ledger_state, ledger_rows, idx, row_locals, text, parsed,
                 name_locals, exc, error_locals>>

\* shutil.copy2 or img.save raises (disk full, permission denied, ...)
MaterializeFails ==
  /\ pc = "materialize"
  /\ faults < MaxFaults
  /\ faults' = faults + 1
  /\ FailedWrite(final_output_path)
  /\ Raise("OSError", MSG_DISK)
  /\ UNCHANGED <<args, dirs, ledger_state, ledger_rows, log_lines, idx, row_locals, text,
                 parsed, name_locals, error_locals>>

----------------------------------------------------------------------------
(* The handler, lines 264-295. *)

\* mutant: the handler leaves status as it was
Except_StatusNotSet ==
  /\ pc = "except"
  /\ error_message' = exc[2]
  /\ status' = status
  /\ Log(<<Line("ERROR processing", "error")>>)
  /\ error_new_filename_base' = ErrorBaseName(filename)
  /\ error_counter' = 1
  /\ error_final_output_path' = Join(ErrorFolder, FirstAttempt(error_new_filename_base'))
  /\ pc' = "eprobe"
  /\ UNCHANGED <<args, faults, disk, idx, filename, recipient_for_log, amount_for_log,
                 date_for_log, final_output_filename, text, parsed, name_locals, exc,
                 copy_error>>

\* mutant: the handler lets the exception end the run
Except_EndsRun ==
  /\ pc = "except"
  /\ error_message' = exc[2]
  /\ status' = ERROR_PFX \o exc[2]
  /\ Log(<<Line("ERROR processing", "error")>>)
  /\ pc' = "done"
  /\ UNCHANGED <<args, faults, disk, idx, filename, recipient_for_log, amount_for_log,
                 date_for_log, final_output_filename, text, parsed, name_locals, exc,
                 error_locals>>

\* lines 265-273: the row's error fields, the error log line, the first error name
Except ==
  /\ pc = "except"
  /\ error_message' = exc[2]
  /\ status' = ERROR_PFX \o exc[2]
  /\ Log(<<Line("ERROR processing", "error")>>)
  /\ error_new_filename_base' = ErrorBaseName(filename)
  /\ error_counter' = 1
  /\ error_final_output_path' = Join(ErrorFolder, FirstAttempt(error_new_filename_base'))
  /\ pc' = "eprobe"
  /\ UNCHANGED <<args, faults, disk, idx, filename, recipient_for_log, amount_for_log,
                 date_for_log, final_output_filename, text, parsed, name_locals, exc,
                 copy_error>>

\* while os.path.exists(error_final_output_path): lines 274-277
ErrorProbeStep ==
  /\ pc = "eprobe"
  /\ error_final_output_path \in DOMAIN fs
  /\ error_final_output_path' =
       Join(ErrorFolder, NumberedAttempt(error_new_filename_base, error_counter))
  /\ error_counter' = error_counter + 1
  /\ UNCHANGED <<args, faults, disk, log_lines, pc, idx, row_locals, text, parsed,
                 name_locals, exc, error_new_filename_base, copy_error>>

\* line 279
ErrorProbeDone ==
  /\ pc = "eprobe"
  /\ error_final_output_path \notin DOMAIN fs
  /\ final_output_filename' = Basename(error_final_output_path)
  /\ pc' = "ecopy"
  /\ UNCHANGED <<args, faults, disk, log_lines, idx, filename, recipient_for_log, amount_for_log,
                 date_for_log, status, error_message, text, parsed, name_locals, exc,
                 error_locals>>

\* mutant: no os.path.exists before the copy, which raises FileNotFoundError
ErrorCopyMissing_NoExistsTest ==
  /\ pc = "ecopy"
  /\ file_path \notin DOMAIN fs
  /\ Log(<<Line("CRITICAL ERROR: Could not copy to error folder", "error")>>)
  /\ copy_error' = <<MSG_NOT_FOUND \o file_path>>
  /\ status' = CRITICAL_PFX \o MSG_NOT_FOUND \o file_path
  /\ error_message' = COPYFAIL_PFX \o MSG_NOT_FOUND \o file_path
  /\ pc' = "row"
  /\ UNCHANGED <<args, faults, disk, idx, filename, recipient_for_log, amount_for_log,
                 date_for_log, final_output_filename, text, parsed, name_locals, exc,
                 error_new_filename_base, error_counter, error_final_output_path>>

\* else branch of line 283: the original does not exist
ErrorCopyMissing ==
  /\ pc = "ecopy"
  /\ file_path \notin DOMAIN fs
  /\ Log(<<Line("Original file was missing or already processed. Cannot copy to error folder", "none")>>)
  /\ pc' = "row"
  /\ UNCHANGED <<args, faults, disk, idx, row_locals, text, parsed, name_locals, exc, error_locals>>

\* the original can be copied: a readable file with a .pdf name, or a readable image
ErrorCopyPossible ==
  /\ fs[file_path].readable
  /\ IsPdfPath(file_path) \/ fs[file_path].kind = "img"

\* lines 284-289
ErrorCopy ==
  /\ pc = "ecopy"
  /\ file_path \in DOMAIN fs
  /\ ErrorCopyPossible
  /\ IF IsPdfPath(file_path)
     THEN CopyFile(file_path, error_final_output_path)
     ELSE ConvertFile(file_path, error_final_output_path)
  /\ Log(<<Line("Copied to error folder", "none")>>)
  /\ pc' = "row"
  /\ UNCHANGED <<args, faults, dirs, ledger_state, ledger_rows, idx, row_locals, text, parsed,
                 name_locals, exc, error_locals>>

\* str(copy_error): the open of an unreadable original, PIL on bytes that are no
\* image, or the write
CopyErrorMessage ==
  IF ~fs[file_path].readable THEN MSG_PERM
  ELSE IF ~IsPdfPath(file_path) /\ fs[file_path].kind # "img" THEN MSG_NOT_IMAGE
  ELSE MSG_DISK

\* mutant: the failed copy is logged and the status is left at "ERROR - ..."
ErrorCopyFails_NoEscalation ==
  /\ pc = "ecopy"
  /\ file_path \in DOMAIN fs
  /\ ErrorCopyPossible => faults < MaxFaults
  /\ faults' = IF ErrorCopyPossible THEN faults + 1 ELSE faults
  /\ IF ErrorCopyPossible THEN FailedWrite(error_final_output_path) ELSE fs' = fs
  /\ Log(<<Line("CRITICAL ERROR: Could not copy to error folder", "error")>>)
  /\ copy_error' = <<CopyErrorMessage>>
  /\ pc' = "row"
  /\ UNCHANGED <<args, dirs, ledger_state, ledger_rows, idx, row_locals, text, parsed,
                 name_locals, exc, error_new_filename_base, error_counter,
                 error_final_output_path>>

\* lines 292-295: the copy raises; the status is escalated
ErrorCopyFails ==
  /\ pc = "ecopy"
  /\ file_path \in DOMAIN fs
  /\ ErrorCopyPossible => faults < MaxFaults
  /\ faults' = IF ErrorCopyPossible THEN faults + 1 ELSE faults
  /\ IF ErrorCopyPossible THEN FailedWrite(error_final_output_path) ELSE fs' = fs
  /\ Log(<<Line("CRITICAL ERROR: Could not copy to error folder", "error")>>)
  /\ copy_error' = <<CopyErrorMessage>>
  /\ status' = CRITICAL_PFX \o CopyErrorMessage
  /\ error_message' = COPYFAIL_PFX \o CopyErrorMessage
  /\ pc' = "row"
  /\ UNCHANGED <<args, dirs, ledger_state, ledger_rows, idx, filename, recipient_for_log,
                 amount_for_log, date_for_log, final_output_filename, text, parsed,
                 name_locals, exc, error_new_filename_base, error_counter,
                 error_final_output_path>>

----------------------------------------------------------------------------
(* The finally block, lines 297-307. *)

LedgerRow ==
  << filename, CsvCell(recipient_for_log), CsvCell(amount_for_log), CsvCell(date_for_log),
     final_output_filename, status, error_message >>

\* mutant: the row is written at the end of the try block, not in finally
WriteRow_OnlyWithoutException ==
  /\ pc = "row"
  /\ ledger_rows' = IF exc = <<>> THEN Append(ledger_rows, LedgerRow) ELSE ledger_rows
  /\ idx' = idx + 1
  /\ pc' = "loop"
  /\ UNCHANGED <<args, faults, fs, dirs, ledger_state, log_lines, row_locals, text, parsed,
                 name_locals, exc, error_locals>>

\* log_writer.writerow([...]); log_file.flush(); then the for loop advances
WriteRow ==
  /\ pc = "row"
  /\ ledger_rows' = Append(ledger_rows, LedgerRow)
  /\ idx' = idx + 1
  /\ pc' = "loop"
  /\ UNCHANGED <<args, faults, fs, dirs, ledger_state, log_lines, row_locals, text, parsed,
                 name_locals, exc, error_locals>>

----------------------------------------------------------------------------

Next ==
  \/ StartNoFiles \/ StartNoFolder \/ StartRun
  \/ LoopNext \/ LoopEnd
  \/ ExtractNotFound \/ ExtractNoAccess \/ ExtractUnsupported \/ ExtractOcrFails \/ ExtractText
  \/ Parse
  \/ NameRaises \/ Classify
  \/ ProbeStep \/ ProbeDone
  \/ MaterializeCopy \/ MaterializeConvert \/ MaterializeFails
  \/ Except
  \/ ErrorProbeStep \/ ErrorProbeDone
  \/ ErrorCopyMissing \/ ErrorCopy \/ ErrorCopyFails
  \/ WriteRow

Spec == Init /\ [][Next]_vars

----------------------------------------------------------------------------
(* The amount of the filename, lines 209-218, over many amount strings: one   *)
(* readable PDF whose record has the organization and the date of the prompt *)
(* example and an amount string drawn from AmountStrings.                    *)

\* longest amount string that is enumerated
MaxAmountLen == 3

\* digits, the decimal point, a thousands separator, a currency sign
AmountChars == {"1", "7", ".", ",", "$"}

AmountStrings == SeqsUpTo(AmountChars, MaxAmountLen) \cup {AMT_125, AMT_1234}

\* process_receipts(["in/a.pdf"], "out") after line 185
AmountInit ==
  /\ files_to_process = <<A_PDF>>
  /\ user_output_folder = OUT_DIR
  /\ fs = InputFiles
  /\ dirs = {LOG_FOLDER, OUT_DIR, Join(OUT_DIR, FAILED_DIR), Join(OUT_DIR, ERROR_DIR)}
  /\ ledger_state = "open"
  /\ ledger_rows = <<Header>>
  /\ log_lines = <<Line("Found files selected for processing", "none"),
                   Line("Outputting processed files to", "none"),
                   Line("Processing", "none"),
                   Line("Extracting text from PDF", "none"),
                   Line("Calling OpenAI GPT for parsing", "none")>>
  /\ pc = "name"
  /\ idx = 1
  /\ filename = Basename(A_PDF)
  /\ \E a \in AmountStrings :
       /\ parsed = <<[RecipientOrgName |-> Str(ORG_RAW), Amount |-> Str(a),
                      Date |-> Str(DATE_0322)]>>
       /\ amount_for_log = Str(a)
  /\ recipient_for_log = Str(ORG_RAW)
  /\ date_for_log = Str(DATE_0322)
  /\ final_output_filename = <<>>
  /\ status = FAILED
  /\ error_message = <<>>
  /\ text = TEXT_OK
  /\ base_new_filename = <<>>
  /\ target_output_folder = <<>>
  /\ counter = 0
  /\ final_output_path = <<>>
  /\ exc = <<>>
  /\ copy_error = <<>>
  /\ error_new_filename_base = <<>>
  /\ error_counter = 0
  /\ error_final_output_path = <<>>
  /\ faults = 0

\* lines 187-262 and 297-310 for that file
AmountNext == Classify \/ ProbeDone \/ MaterializeCopy \/ WriteRow \/ LoopEnd

AmountSpec == AmountInit /\ [][AmountNext]_vars

\* the interpreter keeps running the loop: every enabled step is eventually taken
FairSpec == Spec /\ WF_vars(Next)

----------------------------------------------------------------------------
(* Claims. *)

\* the run went past the guards of lines 136-142
RunStarted == files_to_process # <<>> /\ user_output_folder # <<>>

\* the rows of the ledger after the header
DataRows == IF ledger_rows = <<>> THEN <<>> ELSE Tail(ledger_rows)

StatusOf(row) == row[6]

\* C1: when process_receipts has run to completion on a non-empty file list with
\* a non-empty output folder, the ledger is the 7-column header followed by
\* exactly one row per input file, in whichever way each file ended: row i is
\* the row of file i, and there are as many rows as files.
C1_OneRowPerFile ==
  (pc = "done" /\ RunStarted) =>
    /\ ledger_state = "closed"
    /\ Len(ledger_rows) = Len(files_to_process) + 1
    /\ ledger_rows[1] = Header
    /\ Len(Header) = 7
    /\ \A i \in 1..Len(files_to_process) :
         /\ Len(ledger_rows[i + 1]) = 7
         /\ ledger_rows[i + 1][1] = Basename(files_to_process[i])

\* a completed run of two files, one ending SUCCESS and one CRITICAL ERROR
C1_Witness ==
  /\ pc = "done"
  /\ Len(files_to_process) = 2
  /\ Len(ledger_rows) = 3
  /\ StatusOf(ledger_rows[2]) = SUCCESS
  /\ StartsWith(StatusOf(ledger_rows[3]), CRITICAL_PFX)

\* C6: with an empty file list or an empty output folder the run does nothing: no
\* folder is created, no file is written, the ledger file is neither opened nor
\* truncated, no exception is raised, and the one thing that happens is a single
\* call of the log callback, tagged "warning".
C6_AbortsWithoutEffect ==
  ~RunStarted =>
    /\ pc \in {"start", "done"}
    /\ exc = <<>>
    /\ \/ ledger_state = "absent" /\ ledger_rows = <<>> /\ dirs = {} /\ fs = InputFiles
       \/ /\ ledger_state = "stale" /\ ledger_rows = StaleRows
          /\ dirs = {LOG_FOLDER, OUT_DIR} /\ fs = InputFiles @@ EarlierOutput
    /\ pc = "start" => log_lines = <<>>
    /\ pc = "done" => Len(log_lines) = 1 /\ log_lines[1].tag = "warning"

\* a run with files but no output folder has ended, the old ledger still in place
C6_Witness ==
  /\ pc = "done"
  /\ files_to_process # <<>>
  /\ user_output_folder = <<>>
  /\ ledger_state = "stale"
  /\ Len(log_lines) = 1

\* the number of files whose processing has begun
Started == Cardinality({k \in 1..Len(log_lines) : log_lines[k].msg = "Processing"})

\* C8: files are processed one at a time in the order of the list, without
\* reordering or deduplication: the rows of the ledger are the files of the list
\* in order, and while a file is being extracted, parsed or materialized the
\* rows of all the files before it, and no other, are in the ledger.
C8_SequentialInOrder ==
  ledger_state \in {"open", "closed"} =>
    /\ Len(DataRows) <= Len(files_to_process)
    /\ \A i \in 1..Len(DataRows) : DataRows[i][1] = Basename(files_to_process[i])
    /\ Started - Len(DataRows) \in {0, 1}
    /\ pc \in {"extract", "parse", "name", "probe", "materialize", "except", "eprobe",
               "ecopy", "row"} =>
         /\ Started = Len(DataRows) + 1
         /\ filename = Basename(files_to_process[Started])

\* the second of two different files is being materialized, the row of the
\* first is in the ledger
C8_Witness ==
  /\ pc = "materialize"
  /\ Len(files_to_process) = 2
  /\ files_to_process[1] # files_to_process[2]
  /\ Basename(files_to_process[1]) # Basename(files_to_process[2])
  /\ Len(DataRows) = 1
  /\ filename = Basename(files_to_process[2])

\* C9: the status of every row of the ledger is "SUCCESS", "FAILED - Missing
\* Data", "ERROR - <message>" or "CRITICAL ERROR - <message>"; the default
\* "FAILED" of line 169 never reaches the ledger.
C9_StatusValues ==
  \A i \in 1..Len(DataRows) :
    LET s == StatusOf(DataRows[i]) IN
      /\ \/ s = SUCCESS
         \/ s = FAILED_MISSING
         \/ StartsWith(s, ERROR_PFX)
         \/ StartsWith(s, CRITICAL_PFX)
      /\ s # FAILED

\* a ledger of this run with an ERROR row and a FAILED - Missing Data row
C9_Witness ==
  /\ ledger_state = "closed"
  /\ \E i, j \in 1..Len(DataRows) :
       /\ StartsWith(StatusOf(DataRows[i]), ERROR_PFX)
       /\ StatusOf(DataRows[j]) = FAILED_MISSING

Fields == {"RecipientOrgName", "Amount", "Date"}

\* the record of the current file has a field equal to "UNKNOWN"
RecordHasUnknown == \E f \in Fields : parsed[1][f] = Str(UNKNOWN)

\* the name in the row is the name of the file at final_output_path in folder
MaterializedIn(folder) ==
  /\ final_output_path \in DOMAIN fs
  /\ final_output_path = Join(folder, final_output_filename)

\* C2, as stated: for every file whose parse produces a record, a field equal to
\* "UNKNOWN" means destination failed_receipts/ and status "FAILED - Missing
\* Data", and no such field means destination output root and status "SUCCESS".
\* Stated here for the records whose three fields are strings.
C2_Original ==
  (pc = "row" /\ parsed # <<>> /\ \A f \in Fields : parsed[1][f].t = "str") =>
    IF RecordHasUnknown
    THEN status = FAILED_MISSING /\ MaterializedIn(FailedFolder)
    ELSE status = SUCCESS /\ MaterializedIn(user_output_folder)

\* C2, amended: the classification is the row's status and destination when no
\* exception is raised while the file is named and materialized; when one is
\* raised, the status is "ERROR - ..." or "CRITICAL ERROR - ..." and the name in
\* the row is a name in error_receipts/.
C2_ClassificationUnlessException ==
  (pc = "row" /\ parsed # <<>>) =>
    IF exc = <<>>
    THEN IF RecordHasUnknown
         THEN status = FAILED_MISSING /\ MaterializedIn(FailedFolder)
         ELSE status = SUCCESS /\ MaterializedIn(user_output_folder)
    ELSE /\ StartsWith(status, ERROR_PFX) \/ StartsWith(status, CRITICAL_PFX)
         /\ error_final_output_path = Join(ErrorFolder, final_output_filename)

\* the second file was parsed with a missing field and copied to failed_receipts/,
\* after a first file that ended SUCCESS
C2_Witness ==
  /\ pc = "row"
  /\ idx = 2
  /\ parsed # <<>>
  /\ exc = <<>>
  /\ RecordHasUnknown
  /\ status = FAILED_MISSING
  /\ StatusOf(ledger_rows[2]) = SUCCESS

\* C3: an exception raised while one file is extracted, parsed, classified or
\* materialized ends the processing of that file only: the run goes on, every
\* file of the list is started, and the run ends with a row for every file.
C3_ExceptionAbortsFileOnly ==
  (pc = "except") ~>
    (/\ pc = "done"
     /\ Started = Len(files_to_process)
     /\ Len(DataRows) = Len(files_to_process))

\* a run has ended in which the first file raised and the second ended SUCCESS
C3_Witness ==
  /\ pc = "done"
  /\ Len(DataRows) = 2
  /\ StartsWith(StatusOf(DataRows[1]), ERROR_PFX)
  /\ StatusOf(DataRows[2]) = SUCCESS

\* base.pdf, base_1.pdf, ..., base_(k-1).pdf are in folder and base_k.pdf is not
HoldsFirst(folder, base, k) ==
  /\ Join(folder, FirstAttempt(base)) \in DOMAIN fs
  /\ \A j \in 1..(k - 1) : Join(folder, NumberedAttempt(base, j)) \in DOMAIN fs
  /\ Join(folder, NumberedAttempt(base, k)) \notin DOMAIN fs

\* the name a probe loop has ended on
Resolved(folder, base, path, name) ==
  /\ path \notin DOMAIN fs
  /\ path = Join(folder, name)
  /\ Join(folder, FirstAttempt(base)) \notin DOMAIN fs => name = FirstAttempt(base)
  /\ \A k \in 1..Cardinality(DOMAIN fs) :
       HoldsFirst(folder, base, k) => name = NumberedAttempt(base, k)

\* a probe loop in its n-th turn: the names of the turns before are all taken
Probing(folder, base, path, n) ==
  /\ n >= 1
  /\ n - 1 <= Cardinality(DOMAIN fs)
  /\ path = Join(folder, IF n = 1 THEN FirstAttempt(base) ELSE NumberedAttempt(base, n - 1))
  /\ n > 1 => Join(folder, FirstAttempt(base)) \in DOMAIN fs
  /\ \A j \in 1..(n - 2) : Join(folder, NumberedAttempt(base, j)) \in DOMAIN fs

\* C4: with base.pdf, base_1.pdf, ..., base_(k-1).pdf in the target folder the
\* generated name is base_k.pdf, and base.pdf when base.pdf is not there; the
\* generated name is never the name of a file of the folder, and the loop ends,
\* its counter never passing the number of files on disk.  For both probe loops.
C4_CollisionResolution ==
  /\ pc = "probe" =>
       Probing(target_output_folder, base_new_filename, final_output_path, counter)
  /\ pc = "materialize" =>
       Resolved(target_output_folder, base_new_filename, final_output_path,
                final_output_filename)
  /\ pc = "eprobe" =>
       Probing(ErrorFolder, error_new_filename_base, error_final_output_path, error_counter)
  /\ pc = "ecopy" =>
       Resolved(ErrorFolder, error_new_filename_base, error_final_output_path,
                final_output_filename)

\* base.pdf and base_1.pdf are in the output root and the loop has ended on base_2.pdf
C4_Witness ==
  /\ pc = "materialize"
  /\ HoldsFirst(user_output_folder, OK_BASE, 2)
  /\ final_output_filename = NumberedAttempt(OK_BASE, 2)

\* C5, as stated: the success base name is "{org} ${amount}_{date}", a space
\* between the organization and the "$".
C5_Original ==
  (pc \in {"probe", "materialize"} /\ status = SUCCESS) =>
    base_new_filename =
      RecipientFilenamePart(recipient_for_log) \o <<" ", "$">> \o
      AmountFilenamePart(amount_for_log) \o <<"_">> \o DateFilenamePart(date_for_log)

\* C5, amended: the success base name is "{org}_${amount}_{date}", an underscore
\* between the organization and the "$"; the output name is the base name, a
\* "_<n>" when the name is taken, and ".pdf".
C5_SuccessBaseName ==
  (pc \in {"probe", "materialize"} /\ status = SUCCESS) =>
    /\ base_new_filename =
         RecipientFilenamePart(recipient_for_log) \o <<"_", "$">> \o
         AmountFilenamePart(amount_for_log) \o <<"_">> \o DateFilenamePart(date_for_log)
    /\ (recipient_for_log = Str(ORG_RAW) /\ amount_for_log = Str(AMT_125)
          /\ date_for_log = Str(DATE_0322)) => base_new_filename = OK_BASE
    /\ pc = "materialize" =>
         \/ final_output_filename = base_new_filename \o PDF_EXT
         \/ \E n \in 1..Cardinality(DOMAIN fs) :
              final_output_filename = base_new_filename \o <<"_">> \o IntToStr(n) \o PDF_EXT

\* the record Red/Cross, 125.50, 03.22.2023 is about to be copied to the output root
C5_Witness ==
  /\ pc = "materialize"
  /\ status = SUCCESS
  /\ recipient_for_log = Str(ORG_RAW)
  /\ base_new_filename = OK_BASE
  /\ final_output_filename = OK_BASE \o PDF_EXT

\* C7: when the processing of a file raises and the copy of the original into
\* error_receipts/ raises too, the row has status "CRITICAL ERROR - <secondary
\* message>" and an error message that records the secondary failure; when the
\* copy succeeds or is skipped the status stays "ERROR - <primary message>".  The
\* original is as it was, and a run with such a row still has all its rows.
C7_SecondaryFailureEscalates ==
  /\ (pc = "row" /\ exc # <<>>) =>
       /\ IF copy_error # <<>>
          THEN /\ status = CRITICAL_PFX \o copy_error[1]
               /\ error_message = COPYFAIL_PFX \o copy_error[1]
          ELSE /\ status = ERROR_PFX \o exc[2]
               /\ error_message = exc[2]
       /\ file_path \in DOMAIN InputFiles =>
            file_path \in DOMAIN fs /\ fs[file_path] = InputFiles[file_path]
  /\ (pc = "done" /\ RunStarted) => Len(DataRows) = Len(files_to_process)

\* a run has ended whose first row is CRITICAL ERROR and whose second row is ERROR
C7_Witness ==
  /\ pc = "done"
  /\ Len(DataRows) = 2
  /\ StartsWith(StatusOf(DataRows[1]), CRITICAL_PFX)
  /\ StartsWith(DataRows[1][7], COPYFAIL_PFX)
  /\ StatusOf(DataRows[2]) = ERROR_PFX \o MSG_NO_TEXT

\* C10: every field of every record parse_receipt_with_gpt returns is a
\* non-empty string (the sentinel "UNKNOWN" being one).
C10_ParserNormalizes ==
  parsed # <<>> =>
    \A f \in Fields : parsed[1][f].t = "str" /\ parsed[1][f].v # <<>>

\* the messages parse_receipt_with_gpt logs when the call or the decoding fails
ParseFailureMessages ==
  {"OpenAI API error", "GPT response was not valid JSON", "unexpected error during GPT parsing"}

\* the messages the handlers of process_receipts log for a failed file
HandlerFailureMessages ==
  {"ERROR processing", "CRITICAL ERROR: Could not copy to error folder"}

\* C11: every per-file failure is reported through the log callback with the tag
\* "error" and recorded in the row of the file: no line that reports a failure
\* is untagged, and the row of a file whose processing raised has an ERROR or
\* CRITICAL ERROR status and a non-empty error message.
C11_FailuresTaggedAndRecorded ==
  /\ \A k \in 1..Len(log_lines) :
       log_lines[k].msg \in ParseFailureMessages \cup HandlerFailureMessages =>
         log_lines[k].tag = "error"
  /\ (pc = "row" /\ exc # <<>>) =>
       /\ StartsWith(status, ERROR_PFX) \/ StartsWith(status, CRITICAL_PFX)
       /\ error_message # <<>>

InFile == pc \notin {"start", "loop", "done"}

\* the log line of line 291
MissingOriginalLine ==
  Line("Original file was missing or already processed. Cannot copy to error folder", "none")

\* C13: for an input path that does not exist the row has status
\* "ERROR - File not found: <path>" and that message as its error message, the
\* status is not escalated, the copy into error_receipts/ is skipped with the
\* log line that says the original was missing, and no step of the processing
\* of that file writes a file.
C13_MissingInput ==
  /\ [](/\ (pc = "row" /\ file_path \notin DOMAIN fs) =>
             /\ status = ERROR_PFX \o MSG_NOT_FOUND \o file_path
             /\ error_message = MSG_NOT_FOUND \o file_path
             /\ copy_error = <<>>
             /\ log_lines[Len(log_lines)] = MissingOriginalLine
             /\ error_final_output_path \notin DOMAIN fs
          /\ \A k \in 1..Len(DataRows) :
               files_to_process[k] \notin DOMAIN fs =>
                 /\ StatusOf(DataRows[k]) = ERROR_PFX \o MSG_NOT_FOUND \o files_to_process[k]
                 /\ DataRows[k][7] = MSG_NOT_FOUND \o files_to_process[k])
  /\ [][(InFile /\ file_path \notin DOMAIN fs) => fs' = fs]_vars

\* a run on the one missing path has ended: its row is there and the disk holds
\* the input files and nothing else
C13_Witness ==
  /\ pc = "done"
  /\ files_to_process = <<M_PDF>>
  /\ Len(DataRows) = 1
  /\ StatusOf(DataRows[1]) = ERROR_PFX \o MSG_NOT_FOUND \o M_PDF
  /\ DOMAIN fs = DOMAIN InputFiles
  /\ MissingOriginalLine \in {log_lines[k] : k \in 1..Len(log_lines)}

\* the amount part of a success base name whose organization is "Red Cross" and
\* whose date is 03.22.2023: what stands between "Red Cross_$" and "_03.22.2023"
NamePrefix == <<"R","e","d"," ","C","r","o","s","s","_","$">>

NameSuffix == <<"_">> \o DATE_0322

AmountPartOf(base) == SubSeq(base, Len(NamePrefix) + 1, Len(base) - Len(NameSuffix))

\* the characters of s before its first '.'
UpToFirstDot(s) ==
  IF \E k \in 1..Len(s) : s[k] = "."
  THEN SubSeq(s, 1, (CHOOSE k \in 1..Len(s) : s[k] = "." /\ \A j \in 1..(k - 1) : s[j] # ".") - 1)
  ELSE s

\* the digits of s, in order
DigitsOf(s) == SelectSeq(s, LAMBDA c : c \in Digits)

\* C14: for every amount string other than "UNKNOWN" the filename part is a
\* non-empty string of digits: the digits that stand before the first '.' of the
\* amount, in order, or "0" when there are none ("1,234.56" gives "1234"); the
\* row of the ledger keeps the amount as it was parsed.
C14_AmountSanitization ==
  /\ pc \in {"probe", "materialize", "row", "loop", "done"} =>
       LET a    == parsed[1].Amount.v
           part == AmountPartOf(base_new_filename)
       IN  /\ status = SUCCESS
           /\ base_new_filename = NamePrefix \o part \o NameSuffix
           /\ part # <<>>
           /\ \A k \in 1..Len(part) : part[k] \in Digits
           /\ part = IF DigitsOf(UpToFirstDot(a)) = <<>> THEN <<"0">>
                     ELSE DigitsOf(UpToFirstDot(a))
           /\ a = AMT_1234 => part = <<"1", "2", "3", "4">>
  /\ pc \in {"loop", "done"} =>
       /\ Len(DataRows) = 1
       /\ DataRows[1][3] = parsed[1].Amount.v

\* the run on the amount "1,234.56" has ended: "1234" in the name of the copy,
\* "1,234.56" in the row
C14_Witness ==
  /\ pc = "done"
  /\ parsed[1].Amount = Str(AMT_1234)
  /\ final_output_filename = <<"R","e","d"," ","C","r","o","s","s","_","$","1","2","3","4","_","0","3",".","2","2",".","2","0","2","3",".","p","d","f">>
  /\ Join(OUT_DIR, final_output_filename) \in DOMAIN fs
  /\ DataRows[1][3] = AMT_1234

====
